---- MODULE Spec2Model ----
(***************************************************************************)
(* A model of the lintre evaluator (src/interpreter.rs, src/main.rs):      *)
(* capture handling in substitute, closures and their captured             *)
(* environments, curried application, scoped defines in sequences and the  *)
(* step-count divergence guard.                                            *)
(*                                                                         *)
(* eval is recursive in the source; here it is a small-step machine: ctl   *)
(* is the expression being evaluated or the value being returned, stack    *)
(* holds one frame per suspended eval call (its locals and the point it    *)
(* resumes at), and envs holds the environments of the live calls: envs[1] *)
(* is the environment handed to the outermost call, and every application  *)
(* whose body is being evaluated adds its own closure_env on top.  Nested   *)
(* applications in tail position share one frame and one environment, so   *)
(* that a reduction 10,000 applications deep stays a small state.          *)
(***************************************************************************)
EXTENDS Integers, Sequences, FiniteSets, TLC

VARIABLES call, ctl, stack, envs, step_count, COUNTER

vars == <<call, ctl, stack, envs, step_count, COUNTER>>

(***************************************************************************)
(* Expressions and values                                                  *)
(***************************************************************************)
Var(name) == [tag |-> "Var", name |-> name]

Lambda(params, body) == [tag |-> "Lambda", params |-> params, body |-> body]

Apply(func, arg) == [tag |-> "Apply", func |-> func, arg |-> arg]

Define(name, expr) == [tag |-> "Define", name |-> name, expr |-> expr]

Sequence(exprs) == [tag |-> "Sequence", exprs |-> exprs]

Closure(params, body, env) ==
    [tag |-> "Closure", params |-> params, body |-> body, env |-> env]

Unit == [tag |-> "Unit"]

\* Env::new()
EmptyEnv == [n \in {} |-> Unit]

\* env.insert(name, val)
insert(env, name, val) ==
    [n \in (DOMAIN env) \cup {name} |-> IF n = name THEN val ELSE env[n]]

\* params.contains(var)
contains(params, var) == \E i \in 1..Len(params) : params[i] = var

(***************************************************************************)
(* substitute, with the global COUNTER threaded through as c: the result   *)
(* is [e |-> the new expression, c |-> COUNTER afterwards].                *)
(***************************************************************************)
fresh_var_name(base, id) == base \o "#" \o ToString(id)

RECURSIVE substitute(_, _, _, _)
RECURSIVE rename_params(_, _, _, _, _, _)
RECURSIVE substitute_all(_, _, _, _, _)

\* A Var arm that leaves the variable in place.
substitute_var_kept(expr, var, value) == expr

\* The Var arm of substitute.
substitute_var(expr, var, value) == IF expr.name = var THEN value ELSE expr

\* The Lambda arm's guard: the lambda is rewritten only when var is one of
\* its own parameters.
must_rename(params, var, value) == contains(params, var)

\* The `for p in params` loop of the Lambda arm, from index i on:
\* [params |-> new_params, body |-> new_body, c |-> COUNTER].
rename_params(params, i, new_params, new_body, var, c) ==
    IF i > Len(params) THEN [params |-> new_params, body |-> new_body, c |-> c]
    ELSE IF params[i] = var
         THEN LET fresh == fresh_var_name(params[i], c)
                  b     == substitute(new_body, params[i], Var(fresh), c + 1)
              IN  rename_params(params, i + 1, Append(new_params, fresh),
                                b.e, var, b.c)
         ELSE rename_params(params, i + 1, Append(new_params, params[i]),
                            new_body, var, c)

\* exprs.iter().map(|e| substitute(e, var, value)), from index i on.
substitute_all(exprs, i, var, value, c) ==
    IF i > Len(exprs) THEN [es |-> <<>>, c |-> c]
    ELSE LET h == substitute(exprs[i], var, value, c)
             t == substitute_all(exprs, i + 1, var, value, h.c)
         IN  [es |-> <<h.e>> \o t.es, c |-> t.c]

substitute(expr, var, value, c) ==
    CASE expr.tag = "Var" ->
           [e |-> substitute_var(expr, var, value), c |-> c]
      [] expr.tag = "Apply" ->
           LET f == substitute(expr.func, var, value, c)
               a == substitute(expr.arg, var, value, f.c)
           IN  [e |-> Apply(f.e, a.e), c |-> a.c]
      [] expr.tag = "Lambda" ->
           IF must_rename(expr.params, var, value)
           THEN LET r == rename_params(expr.params, 1, <<>>, expr.body, var, c)
                    b == substitute(r.body, var, value, r.c)
                IN  [e |-> Lambda(r.params, b.e), c |-> b.c]
           ELSE LET b == substitute(expr.body, var, value, c)
                IN  [e |-> Lambda(expr.params, b.e), c |-> b.c]
      [] expr.tag = "Define" ->
           LET b == substitute(expr.expr, var, value, c)
           IN  [e |-> Define(expr.name, b.e), c |-> b.c]
      [] expr.tag = "Sequence" ->
           LET r == substitute_all(expr.exprs, 1, var, value, c)
           IN  [e |-> Sequence(r.es), c |-> r.c]

to_expr(value) ==
    IF value.tag = "Closure" THEN Lambda(value.params, value.body)
    ELSE Var("unit")

(***************************************************************************)
(* Free variables with respect to Lambda binders.                          *)
(***************************************************************************)
RECURSIVE FreeVars(_)
FreeVars(e) ==
    CASE e.tag = "Var"      -> {e.name}
      [] e.tag = "Apply"    -> FreeVars(e.func) \cup FreeVars(e.arg)
      [] e.tag = "Lambda"   ->
           FreeVars(e.body) \ {e.params[i] : i \in 1..Len(e.params)}
      [] e.tag = "Define"   -> FreeVars(e.expr)
      [] e.tag = "Sequence" ->
           UNION {FreeVars(e.exprs[i]) : i \in 1..Len(e.exprs)}

(***************************************************************************)
(* Bounded inputs                                                          *)
(***************************************************************************)
\* Depth of the expressions substitute is applied to.
SubDepth == 2

SubNames == {"x", "z"}

RECURSIVE ExprsOfDepth(_)
ExprsOfDepth(d) ==
    IF d = 0 THEN {Var(n) : n \in SubNames}
    ELSE LET S == ExprsOfDepth(d - 1)
         IN  {Var(n) : n \in SubNames}
             \cup {Lambda(<<n>>, b) : n \in SubNames, b \in S}
             \cup {Lambda(<<"x", "z">>, b) : b \in S}
             \cup {Apply(f, a) : f \in S, a \in S}
             \cup {Define("x", b) : b \in S}
             \cup {Sequence(<<a>>) : a \in S}

SubValues == {Var("z"), Var("w"), Lambda(<<"z">>, Apply(Var("z"), Var("x")))}

(***************************************************************************)
(* The specification of substitute as a function: one call on inputs drawn *)
(* from the bounded sets.                                                  *)
(***************************************************************************)
InitSub ==
    /\ call \in {[op |-> "substitute", expr |-> e, var |-> v, value |-> r] :
                   e \in ExprsOfDepth(SubDepth), v \in SubNames, r \in SubValues}
    /\ ctl = [mode |-> "start"]
    /\ stack = <<>>
    /\ envs = <<>>
    /\ step_count = 0
    /\ COUNTER = 0

SubstituteCall ==
    /\ call.op = "substitute"
    /\ ctl.mode = "start"
    /\ LET r == substitute(call.expr, call.var, call.value, COUNTER)
       IN  /\ ctl' = [mode |-> "subret", expr |-> r.e]
           /\ COUNTER' = r.c
    /\ UNCHANGED <<call, stack, envs, step_count>>

NextSub == SubstituteCall

SpecSub == InitSub /\ [][NextSub]_vars

\* C1: substitute replaces every free occurrence of var by the replacement
\* and captures no free variable of the replacement: the free variables of
\* the result are those of expr other than var, together with those of the
\* replacement when var occurs free in expr.
SubstituteAvoidsCapture ==
    ctl.mode = "subret" =>
        FreeVars(ctl.expr) =
            (FreeVars(call.expr) \ {call.var})
            \cup (IF call.var \in FreeVars(call.expr)
                  THEN FreeVars(call.value) ELSE {})


(***************************************************************************)
(* eval and eval_document as a small-step machine                          *)
(***************************************************************************)
\* The ceiling of the divergence guard.
StepCeiling == 10000

DivergenceError == "Infinite beta reduction detected!"

TooManyError == "Too many arguments"

NotAFunctionError == "Trying to call a non-function"

UndefinedError(name) == "Undefined variable: " \o name

\* `*step_count += 1`
bump(steps) == steps + 1

\* A guard that already fires on reaching the ceiling.
exceeds_early(steps) == steps >= StepCeiling

\* `*step_count > 10000`
exceeds(steps) == steps > StepCeiling

\* The environment of the running eval call, and the frame it returns to.
cur_env == envs[Len(envs)]

top == stack[Len(stack)]

popped == SubSeq(stack, 1, Len(stack) - 1)

with_env(es, env) == [es EXCEPT ![Len(es)] = env]

Evaluating(tag) == ctl.mode = "eval" /\ ctl.expr.tag = tag

Returning(kind) == ctl.mode = "ret" /\ stack # <<>> /\ top.kind = kind

\* Ok(v) back to the frame on top of the stack.
Return(v) ==
    /\ ctl' = [mode |-> "ret", val |-> v]
    /\ UNCHANGED <<stack, envs>>

\* Err(msg): every pending call returns it at its `?`, whatever it had
\* changed in its environment stays, and the callers' closure_envs are
\* dropped.
Fail(msg) ==
    /\ ctl' = [mode |-> "err", msg |-> msg]
    /\ stack' = <<>>
    /\ envs' = <<envs[1]>>

\* The end of a Sequence: defined_vars are removed, then old_values are put
\* back.
restore(env, defined_vars, old_values) ==
    LET gone == {defined_vars[i] : i \in 1..Len(defined_vars)}
    IN  [n \in ((DOMAIN env) \ gone) \cup DOMAIN old_values |->
            IF n \in DOMAIN old_values THEN old_values[n] ELSE env[n]]

\* What a Define element of a Sequence records before it binds name:
\* the value name has now, or that name is new.
record_define(env, name, defined_vars, old_values) ==
    IF name \in DOMAIN env
    THEN [defined_vars |-> defined_vars,
          old_values   |-> insert(old_values, name, env[name])]
    ELSE [defined_vars |-> Append(defined_vars, name),
          old_values   |-> old_values]

\* A Define arm that assigns the bound value to `last`.
last_after_define_assigned(last, val) == val

\* `last` after a Define element of a Sequence that bound val: the arm
\* does not assign it.
last_after_define(last, val) == last

\* One turn of the `for expr in exprs` loop of the Sequence arm, with the
\* elements still to run in rest, and the code after the loop.
SequenceLoop(rest, last, defined_vars, old_values, stk, es) ==
    IF rest = <<>>
    THEN /\ ctl' = [mode |-> "ret", val |-> last]
         /\ stack' = stk
         /\ envs' = with_env(es, restore(es[Len(es)], defined_vars, old_values))
    ELSE LET locals == [rest |-> Tail(rest), last |-> last,
                        defined_vars |-> defined_vars,
                        old_values |-> old_values]
         IN  IF Head(rest).tag = "Define"
             THEN /\ ctl' = [mode |-> "eval", expr |-> Head(rest).expr]
                  /\ stack' = Append(stk, [kind |-> "SeqDefine",
                                           name |-> Head(rest).name,
                                           locals |-> locals])
                  /\ envs' = es
             ELSE /\ ctl' = [mode |-> "eval", expr |-> Head(rest)]
                  /\ stack' = Append(stk, [kind |-> "SeqExpr",
                                           locals |-> locals])
                  /\ envs' = es

\* One turn of the loop of eval_document over a top-level Sequence.
DocumentLoop(rest, last) ==
    IF rest = <<>>
    THEN /\ ctl' = [mode |-> "ret", val |-> last]
         /\ stack' = <<>>
    ELSE /\ ctl' = [mode |-> "eval", expr |-> Head(rest)]
         /\ stack' = <<[kind |-> "Doc", rest |-> Tail(rest)]>>

\* main calling eval_document, or a caller calling eval.
Start ==
    /\ ctl.mode = "start"
    /\ call.op \in {"eval", "eval_document"}
    /\ IF call.op = "eval_document" /\ call.expr.tag = "Sequence"
       THEN DocumentLoop(call.expr.exprs, Unit)
       ELSE ctl' = [mode |-> "eval", expr |-> call.expr] /\ stack' = <<>>
    /\ UNCHANGED <<call, envs, step_count, COUNTER>>

RetDocument ==
    /\ Returning("Doc")
    /\ DocumentLoop(top.rest, ctl.val)
    /\ UNCHANGED <<call, envs, step_count, COUNTER>>

EvalVar ==
    /\ Evaluating("Var")
    /\ IF ctl.expr.name \in DOMAIN cur_env
       THEN Return(cur_env[ctl.expr.name])
       ELSE Fail(UndefinedError(ctl.expr.name))
    /\ UNCHANGED <<call, step_count, COUNTER>>

EvalLambda ==
    /\ Evaluating("Lambda")
    /\ Return(Closure(ctl.expr.params, ctl.expr.body, cur_env))
    /\ UNCHANGED <<call, step_count, COUNTER>>

EvalApply ==
    /\ Evaluating("Apply")
    /\ step_count' = bump(step_count)
    /\ IF exceeds(step_count')
       THEN Fail(DivergenceError)
       ELSE /\ ctl' = [mode |-> "eval", expr |-> ctl.expr.func]
            /\ stack' = Append(stack, [kind |-> "ApplyFunc",
                                       arg |-> ctl.expr.arg])
            /\ UNCHANGED envs
    /\ UNCHANGED <<call, COUNTER>>

RetApplyFunc ==
    /\ Returning("ApplyFunc")
    /\ ctl' = [mode |-> "eval", expr |-> top.arg]
    /\ stack' = Append(popped, [kind |-> "ApplyArg", func_val |-> ctl.val])
    /\ UNCHANGED <<call, envs, step_count, COUNTER>>

\* The application being evaluated is itself the whole body of the
\* application below it: that one has nothing left to do but hand the
\* value up, and its closure_env is not read again.
in_tail_position(stk) == stk # <<>> /\ stk[Len(stk)].kind = "ApplyBody"

\* The frame of an application whose body is being evaluated.  A run of
\* such frames that wait only to hand the body's value up is kept as one
\* frame with their number in calls, and the environment of the innermost
\* takes the place of the one before it.
enter_body(stk) ==
    IF in_tail_position(stk)
    THEN [stk EXCEPT ![Len(stk)].calls = @ + 1]
    ELSE Append(stk, [kind |-> "ApplyBody", calls |-> 1])

\* An application that hands back the closure without looking at what is
\* left of its parameter list.
applied_unchecked(params, substituted_body, closure_env) ==
    [enter |-> FALSE, val |-> Closure(params, substituted_body, closure_env)]

\* The result of applying a closure whose parameters are all bound is the
\* value of its body under closure_env, a local of this call; otherwise it
\* is the closure over the remaining parameters.
applied(params, substituted_body, closure_env) ==
    IF params = <<>>
    THEN [enter |-> TRUE, body |-> substituted_body, env |-> closure_env]
    ELSE [enter |-> FALSE,
          val |-> Closure(params, substituted_body, closure_env)]

RetApplyArg ==
    /\ Returning("ApplyArg")
    /\ LET func_val == top.func_val
           arg_val  == ctl.val
       IN  IF func_val.tag # "Closure"
           THEN Fail(NotAFunctionError) /\ UNCHANGED COUNTER
           ELSE IF func_val.params = <<>>
           THEN Fail(TooManyError) /\ UNCHANGED COUNTER
           ELSE LET param == Head(func_val.params)
                    s == substitute(func_val.body, param, to_expr(arg_val),
                                    COUNTER)
                    r == applied(Tail(func_val.params), s.e, func_val.env)
                IN  /\ COUNTER' = s.c
                    /\ IF r.enter
                       THEN /\ ctl' = [mode |-> "eval", expr |-> r.body]
                            /\ stack' = enter_body(popped)
                            /\ envs' = IF in_tail_position(popped)
                                       THEN with_env(envs, r.env)
                                       ELSE Append(envs, r.env)
                       ELSE /\ ctl' = [mode |-> "ret", val |-> r.val]
                            /\ stack' = popped
                            /\ UNCHANGED envs
    /\ UNCHANGED <<call, step_count>>

\* A return that writes the callee's environment over the caller's.
leave_body_written_back(es) ==
    [SubSeq(es, 1, Len(es) - 1) EXCEPT ![Len(es) - 1] = es[Len(es)]]

\* closure_env is a local of the Apply arm: when the body has been evaluated
\* it goes out of scope and the caller's environment is the current one
\* again.
leave_body(es) == SubSeq(es, 1, Len(es) - 1)

\* The body's value is the application's.
RetApplyBody ==
    /\ Returning("ApplyBody")
    /\ stack' = popped
    /\ envs' = leave_body(envs)
    /\ UNCHANGED <<call, ctl, step_count, COUNTER>>

EvalDefine ==
    /\ Evaluating("Define")
    /\ ctl' = [mode |-> "eval", expr |-> ctl.expr.expr]
    /\ stack' = Append(stack, [kind |-> "Define", name |-> ctl.expr.name])
    /\ UNCHANGED <<call, envs, step_count, COUNTER>>

RetDefine ==
    /\ Returning("Define")
    /\ envs' = with_env(envs, insert(cur_env, top.name, ctl.val))
    /\ stack' = popped
    /\ UNCHANGED <<call, ctl, step_count, COUNTER>>

EvalSequence ==
    /\ Evaluating("Sequence")
    /\ SequenceLoop(ctl.expr.exprs, Unit, <<>>, EmptyEnv, stack, envs)
    /\ UNCHANGED <<call, step_count, COUNTER>>

RetSeqDefine ==
    /\ Returning("SeqDefine")
    /\ LET l == top.locals
           r == record_define(cur_env, top.name, l.defined_vars, l.old_values)
       IN  SequenceLoop(l.rest, last_after_define(l.last, ctl.val),
                        r.defined_vars, r.old_values, popped,
                        with_env(envs, insert(cur_env, top.name, ctl.val)))
    /\ UNCHANGED <<call, step_count, COUNTER>>

RetSeqExpr ==
    /\ Returning("SeqExpr")
    /\ LET l == top.locals
       IN  SequenceLoop(l.rest, ctl.val, l.defined_vars, l.old_values,
                        popped, envs)
    /\ UNCHANGED <<call, step_count, COUNTER>>

Next ==
    \/ Start
    \/ RetDocument
    \/ EvalVar
    \/ EvalLambda
    \/ EvalApply
    \/ RetApplyFunc
    \/ RetApplyArg
    \/ RetApplyBody
    \/ EvalDefine
    \/ RetDefine
    \/ EvalSequence
    \/ RetSeqDefine
    \/ RetSeqExpr

\* The call has returned to its caller.
Done == ctl.mode \in {"ret", "err"} /\ stack = <<>>

Returned == ctl.mode = "ret" /\ stack = <<>>

Failed(msg) == ctl.mode = "err" /\ ctl.msg = msg

(***************************************************************************)
(* The calls the machine is run on                                         *)
(***************************************************************************)
K0 == Closure(<<>>, Var("p"), EmptyEnv)

K1 == Closure(<<"p">>, Var("p"), EmptyEnv)

K2 == Closure(<<"p", "q">>, Var("q"), EmptyEnv)

K3 == Closure(<<"p">>, Var("y"), insert(EmptyEnv, "y", K1))

K4 == Closure(<<"y">>, Apply(Var("y"), Var("p")), insert(EmptyEnv, "p", K2))

Closures == {K1, K2, K3, K4}

bind2(n1, v1, n2, v2) == insert(insert(EmptyEnv, n1, v1), n2, v2)

\* Depth of the generated expressions eval is called on.
EvalDepth == 3

\* Length of the generated sequences of defines and lookups.
MaxSeqLen == 3

Atoms == {Var("x"), Var("y")}

RECURSIVE EvalExprs(_)
EvalExprs(d) ==
    IF d = 0 THEN Atoms
    ELSE LET S == EvalExprs(d - 1)
         IN  Atoms
             \cup {Lambda(<<"x">>, b) : b \in S}
             \cup {Lambda(<<"y", "x">>, b) : b \in S}
             \cup {Apply(f, a) : f \in S, a \in Atoms}
             \cup {Apply(f, a) : f \in Atoms, a \in S}
             \cup {Define("x", b) : b \in S}
             \cup {Sequence(<<a, b>>) : a \in S, b \in Atoms}

GenericEnvs ==
    {EmptyEnv, bind2("x", K1, "y", K2), bind2("x", K3, "y", Unit),
     bind2("x", K2, "y", K4), bind2("x", K0, "y", K1)}

GenericCalls ==
    {[op |-> "eval", expr |-> e, env |-> env] :
        e \in EvalExprs(EvalDepth), env \in GenericEnvs}

\* (L x . x) y
IdentityApp == Apply(Lambda(<<"x">>, Var("x")), Var("y"))

IdentityCalls ==
    {[op |-> "eval", expr |-> IdentityApp, env |-> insert(EmptyEnv, "y", C)] :
        C \in Closures}

\* (L x y . x) a, and ((L x y . x) a) b
CurryPartial == Apply(Lambda(<<"x", "y">>, Var("x")), Var("a"))

CurryFull == Apply(CurryPartial, Var("b"))

CurryCalls ==
    {[op |-> "eval", expr |-> e, env |-> bind2("a", Ca, "b", Cb)] :
        e \in {CurryPartial, CurryFull}, Ca \in Closures, Cb \in Closures}

\* Sequences of `x = u`, `x = v`, `y = x`, `x` and `u`.
SeqElems ==
    {Define("x", Var("u")), Define("x", Var("v")), Define("y", Var("x")),
     Var("x"), Var("u")}

RECURSIVE SeqsOfLen(_)
SeqsOfLen(n) ==
    IF n = 0 THEN {<<>>}
    ELSE {Append(s, e) : s \in SeqsOfLen(n - 1), e \in SeqElems}

SeqEnvs ==
    {bind2("u", K1, "v", K2), insert(bind2("u", K1, "v", K2), "x", K3)}

SequenceCalls ==
    {[op |-> o, expr |-> Sequence(es), env |-> env] :
        o \in {"eval", "eval_document"},
        es \in UNION {SeqsOfLen(n) : n \in 0..MaxSeqLen},
        env \in SeqEnvs}

\* x = L a . a; (x = L b . b; x = L c . c; x); x
ScopedDefineDoc ==
    Sequence(<<Define("x", Lambda(<<"a">>, Var("a"))),
               Sequence(<<Define("x", Lambda(<<"b">>, Var("b"))),
                          Define("x", Lambda(<<"c">>, Var("c"))),
                          Var("x")>>),
               Var("x")>>)

\* k = Ka; f = L q . k; k = Kb; <use of f>
SnapshotDoc(use) ==
    Sequence(<<Define("k", Lambda(<<"a">>, Var("a"))),
               Define("f", Lambda(<<"q">>, Var("k"))),
               Define("k", Lambda(<<"b">>, Lambda(<<"c">>, Var("b")))),
               use>>)

\* f applied where it is, and f handed to L g . (g g)
SnapshotUses ==
    {Apply(Var("f"), Var("f")),
     Sequence(<<Define("k", Var("f")), Apply(Var("f"), Var("k"))>>),
     Apply(Lambda(<<"g">>, Apply(Var("g"), Var("g"))), Var("f"))}

\* (L x . (L z . (x z))) z, the capture test, and calls whose body defines.
OtherExprs ==
    {Apply(Lambda(<<"x">>, Lambda(<<"z">>, Apply(Var("x"), Var("z")))), Var("z")),
     Apply(Lambda(<<"p">>, Sequence(<<Define("q", Var("p")), Var("q")>>)),
           Var("z")),
     Apply(Lambda(<<"p">>, Define("z", Var("p"))), Var("y")),
     Apply(Lambda(<<>>, Var("z")), Var("y")),
     Apply(Apply(Lambda(<<"p">>, Lambda(<<>>, Var("p"))), Var("y")), Var("z"))}

OtherCalls ==
    {[op |-> "eval", expr |-> e, env |-> bind2("z", K1, "y", K3)] :
        e \in OtherExprs}

DocumentCalls ==
    {[op |-> "eval_document", expr |-> e, env |-> EmptyEnv] :
        e \in {ScopedDefineDoc} \cup {SnapshotDoc(u) : u \in SnapshotUses}}

Calls ==
    GenericCalls \cup IdentityCalls \cup CurryCalls \cup SequenceCalls
    \cup OtherCalls \cup DocumentCalls

\* (L x . (x x)) (L x . (x x))
Omega ==
    LET W == Lambda(<<"x">>, Apply(Var("x"), Var("x"))) IN Apply(W, W)

OmegaCall == [op |-> "eval_document", expr |-> Omega, env |-> EmptyEnv]

\* w = L x . (x x); w w
OmegaDefined ==
    Sequence(<<Define("w", Lambda(<<"x">>, Apply(Var("x"), Var("x")))),
               Apply(Var("w"), Var("w"))>>)

DivergingCalls ==
    {OmegaCall,
     [op |-> "eval_document", expr |-> OmegaDefined, env |-> EmptyEnv],
     [op |-> "eval", expr |-> OmegaDefined, env |-> bind2("x", K1, "y", K2)]}

Begin(calls) ==
    /\ call \in calls
    /\ ctl = [mode |-> "start"]
    /\ stack = <<>>
    /\ envs = <<call.env>>
    /\ step_count = 0
    /\ COUNTER = 0

Init == Begin(Calls \cup DivergingCalls)

Spec == Init /\ [][Next]_vars

\* eval is sequential code: it runs on until it returns.
FairSpec == Spec /\ WF_vars(Next)

(***************************************************************************)
(* Properties                                                              *)
(***************************************************************************)
\* The names bound by the Define elements of a sequence.
OwnDefines(es) == {es[i].name : i \in {j \in 1..Len(es) : es[j].tag = "Define"}}

\* C2: when eval of a Sequence has returned, every name its own Define
\* elements bound is as it was before: absent if it was absent, and bound
\* to its earlier value if it was bound; the nested sequence of
\* `x = L a . a; (x = L b . b; x = L c . c; x); x` leaves x as the first
\* define bound it.
SequenceRestoresEnv ==
    /\ (Returned /\ call.op = "eval" /\ call.expr.tag = "Sequence") =>
          \A n \in OwnDefines(call.expr.exprs) :
              IF n \in DOMAIN call.env
              THEN n \in DOMAIN envs[1] /\ envs[1][n] = call.env[n]
              ELSE n \notin DOMAIN envs[1]
    /\ (Returned /\ call.expr = ScopedDefineDoc) =>
          ctl.val = Closure(<<"a">>, Var("a"), EmptyEnv)

BindsClosure(env, name) == name \in DOMAIN env /\ env[name].tag = "Closure"

\* C4: (L x . x) y, with y bound to a closure, returns that closure:
\* parameters, body and captured environment.
IdentityReturnsClosure ==
    (Done /\ call.expr = IdentityApp /\ BindsClosure(call.env, "y")) =>
        Returned /\ ctl.val = call.env["y"]

\* C5: (L x y . x) a returns a closure over the one parameter y without
\* evaluating the body, and applying it to b returns the value bound to a.
CurryingReturnsFirst ==
    /\ (Done /\ call.expr = CurryPartial /\ BindsClosure(call.env, "a")) =>
          /\ Returned
          /\ ctl.val.tag = "Closure"
          /\ ctl.val.params = <<"y">>
          /\ step_count = 1
    /\ (Done /\ call.expr = CurryFull /\ BindsClosure(call.env, "a")
              /\ BindsClosure(call.env, "b")) =>
          Returned /\ ctl.val = call.env["a"]

\* C6: the free variable k of the closure stored under f resolves to the
\* binding k had when f's lambda was evaluated, however f is used after k
\* has been defined again: applied where it stands, after another define,
\* or handed to another function as its argument.
SnapshotIsIndependent ==
    (Done /\ call.op = "eval_document"
          /\ \E u \in SnapshotUses : call.expr = SnapshotDoc(u)) =>
        /\ Returned
        /\ envs[1]["f"].env["k"] = Closure(<<"a">>, Var("a"), EmptyEnv)
        /\ ctl.val = envs[1]["f"].env["k"]

\* An expression whose evaluation runs no Define and no Sequence in the
\* caller's environment: variables, lambdas and applications of such.
RECURSIVE Pure(_)
Pure(e) ==
    \/ e.tag \in {"Var", "Lambda"}
    \/ e.tag = "Apply" /\ Pure(e.func) /\ Pure(e.arg)

\* C7: evaluating the body of a called function leaves the caller's
\* environment alone: when eval has returned from an application whose
\* function and argument expressions define nothing themselves, with a
\* value or an error, the caller's environment is the one it passed in.
CallerEnvUntouched ==
    (Done /\ call.op = "eval" /\ Pure(call.expr)) => envs[1] = call.env

\* The body of a called lambda, which started in a copy of the caller's
\* environment, has defined a name in it and is about to return.
CalleeDefinedLocally ==
    /\ Returning("ApplyBody")
    /\ Len(stack) = 1
    /\ call.op = "eval"
    /\ Pure(call.expr)
    /\ call.expr.func.tag = "Lambda"
    /\ envs[1] = call.env
    /\ envs[2] # envs[1]

\* A sequence of the generated family: defines of and lookups of names.
IsSimpleSequence(c) ==
    /\ c.expr.tag = "Sequence"
    /\ c.env \in SeqEnvs
    /\ \A i \in 1..Len(c.expr.exprs) : c.expr.exprs[i] \in SeqElems

Unbound == [tag |-> "Unbound"]

\* What name is bound to once the first i elements of es have run from env.
RECURSIVE BoundAfter(_, _, _, _)
BoundAfter(es, i, name, env) ==
    IF i = 0 THEN (IF name \in DOMAIN env THEN env[name] ELSE Unbound)
    ELSE IF es[i].tag = "Define" /\ es[i].name = name
         THEN BoundAfter(es, i - 1, es[i].expr.name, env)
         ELSE BoundAfter(es, i - 1, name, env)

\* The value of element i of es: of a lookup, what the name is bound to;
\* of a define, the value it binds.
ValueOfElement(es, i, env) ==
    BoundAfter(es, i - 1,
               IF es[i].tag = "Define" THEN es[i].expr.name ELSE es[i].name,
               env)

NonDefines(es) == {i \in 1..Len(es) : es[i].tag # "Define"}

Last(S) == CHOOSE i \in S : \A j \in S : j <= i

\* C8 as stated: the value of a non-empty Sequence is the value of its last
\* element, a Define's bound value included, and an empty one is Unit.
SequenceValueIsLastElement ==
    (Returned /\ IsSimpleSequence(call)) =>
        LET es == call.expr.exprs
        IN  ctl.val = IF es = <<>> THEN Unit
                      ELSE ValueOfElement(es, Len(es), call.env)

\* C8 as the code has it: eval of a Sequence returns the value of its last
\* element that is not a Define, and Unit when it has none; only the
\* top-level sequence run by eval_document returns the value of its last
\* element whatever it is, and Unit when it is empty.
SequenceValueIsLastNonDefine ==
    (Returned /\ IsSimpleSequence(call)) =>
        LET es == call.expr.exprs
        IN  ctl.val =
              IF call.op = "eval_document"
              THEN (IF es = <<>> THEN Unit
                    ELSE ValueOfElement(es, Len(es), call.env))
              ELSE (IF NonDefines(es) = {} THEN Unit
                    ELSE ValueOfElement(es, Last(NonDefines(es)), call.env))

\* eval has returned from a sequence that ends in a Define after a lookup,
\* with the lookup's value and not the one the Define bound.
SequenceEndedInDefine ==
    /\ Returned
    /\ call.op = "eval"
    /\ IsSimpleSequence(call)
    /\ LET es == call.expr.exprs
       IN  /\ es # <<>>
           /\ es[Len(es)].tag = "Define"
           /\ NonDefines(es) # {}
           /\ ctl.val = ValueOfElement(es, Last(NonDefines(es)), call.env)
           /\ ctl.val # ValueOfElement(es, Len(es), call.env)

\* C9: step_count goes up by one with every Apply that eval starts on and
\* changes at no other step, and eval has failed with the divergence error
\* exactly when step_count has passed the ceiling of 10,000.
StepCounterGuards ==
    [][/\ step_count' = step_count + (IF Evaluating("Apply") THEN 1 ELSE 0)
       /\ Failed(DivergenceError)' <=> (step_count' > StepCeiling)]_vars

\* The guard has fired, on the Apply after the 10,000th.
GuardFired == Failed(DivergenceError) /\ step_count = StepCeiling + 1

\* C3: every call of eval returns, with a value or an error, and the calls
\* on the self-application return the divergence error.
EvalTerminates ==
    <>(Done /\ (call \in DivergingCalls => Failed(DivergenceError)))

\* The self-application has been cut off by the guard.
OmegaCutOff == Done /\ call = OmegaCall /\ ctl.msg = DivergenceError

\* Every Lambda of e has parameters.
RECURSIVE WellFormedExpr(_)
WellFormedExpr(e) ==
    CASE e.tag = "Var"      -> TRUE
      [] e.tag = "Lambda"   -> e.params # <<>> /\ WellFormedExpr(e.body)
      [] e.tag = "Apply"    -> WellFormedExpr(e.func) /\ WellFormedExpr(e.arg)
      [] e.tag = "Define"   -> WellFormedExpr(e.expr)
      [] e.tag = "Sequence" ->
           \A i \in 1..Len(e.exprs) : WellFormedExpr(e.exprs[i])

\* v is Unit or a closure with parameters, over a body and a captured
\* environment that hold none without.
RECURSIVE WellFormedValue(_)
WellFormedValue(v) ==
    \/ v.tag = "Unit"
    \/ /\ v.tag = "Closure"
       /\ v.params # <<>>
       /\ WellFormedExpr(v.body)
       /\ \A n \in DOMAIN v.env : WellFormedValue(v.env[n])

WellFormedEnv(env) == \A n \in DOMAIN env : WellFormedValue(env[n])

\* v and every closure it has captured have parameters.
RECURSIVE HasParams(_)
HasParams(v) ==
    \/ v.tag = "Unit"
    \/ /\ v.params # <<>>
       /\ \A n \in DOMAIN v.env : HasParams(v.env[n])

\* The values a frame of the stack holds.
FrameHasParams(f) ==
    CASE f.kind = "ApplyArg" -> HasParams(f.func_val)
      [] f.kind \in {"SeqDefine", "SeqExpr"} ->
           /\ HasParams(f.locals.last)
           /\ \A n \in DOMAIN f.locals.old_values :
                 HasParams(f.locals.old_values[n])
      [] OTHER -> TRUE

\* C10: from an expression whose Lambdas all have parameters and an
\* environment whose closures all have, every closure eval returns, binds,
\* captures or holds has parameters, and "Too many arguments" is not
\* returned.
ClosuresKeepParams ==
    (call.op \in {"eval", "eval_document"}
       /\ WellFormedExpr(call.expr) /\ WellFormedEnv(call.env)) =>
        /\ ctl.mode = "ret" => HasParams(ctl.val)
        /\ \A i \in 1..Len(envs) : \A n \in DOMAIN envs[i] : HasParams(envs[i][n])
        /\ \A i \in 1..Len(stack) : FrameHasParams(stack[i])
        /\ ~Failed(TooManyError)

\* A partial application of a two-parameter closure has returned the
\* closure over the one parameter left.
PartialApplicationReturned ==
    /\ Returned
    /\ WellFormedExpr(call.expr) /\ WellFormedEnv(call.env)
    /\ call.expr.tag = "Apply"
    /\ step_count = 1
    /\ ctl.val.tag = "Closure"
    /\ Len(ctl.val.params) = 1

====
